---- MODULE Spec2Model ----
(***************************************************************************)
(* Model of MeshSimplifierNode (comfyui_mesh_simplifier.py): the entry     *)
(* point simplify_mesh and the two pipelines _simplify_with_texture and    *)
(* _simplify_without_texture, with the PyMeshLab MeshSet they drive.       *)
(*                                                                         *)
(* A mesh is abstracted to its face count and to the list of filters that  *)
(* were applied to the MeshSet holding it.  Every call into PyMeshLab or   *)
(* the host mesh object may complete or raise.  Fractions are counted in   *)
(* eighths, which binary floating point represents exactly, so that        *)
(* int(current_faces * (1.0 - p)) is computed as the code computes it.     *)
(***************************************************************************)
EXTENDS Integers, Sequences, FiniteSets, TLC

\* ---------------------------------------------------------------- bounds
MaxFaces == 7        \* largest face count of an input mesh
MaxRemoved == 2      \* most faces the cleanup filters remove from a mesh

\* ------------------------------------------------------ program constants
MinTargetFaces == 4          \* max(4, targetfacenum)
DefaultTargetFaces == 1000   \* "Default case"
FlipIterations == 2          \* iterations=2 of the edge-flip post-pass
Eighths == 8                 \* 1.0, counted in eighths

\* ------------------------------------------------------------ Python values
None == [tag |-> "None", val |-> 0]
NaN == [tag |-> "nan", val |-> 0]
PyInt(n) == [tag |-> "int", val |-> n]
PyFloat(e) == [tag |-> "float", val |-> e]     \* the float e/8

Max(a, b) == IF a >= b THEN a ELSE b
Min(a, b) == IF a <= b THEN a ELSE b

\* int(x) of the rational num/den: truncation toward zero
TruncMut(num, den) == (2 * num + den) \div (2 * den)
Trunc(num, den) == IF num >= 0 THEN num \div den ELSE -((-num) \div den)

\* _bool_str_to_bool
_bool_str_to_bool(bool_str) == bool_str = "True"

\* the names of the filters and MeshSet calls, as logged per MeshSet
LoadOp == "load_new_mesh"
TargetOp == "targetfacenum"
DecimateTexOp == "meshing_decimation_quadric_edge_collapse_with_texture"
DecimateStdOp == "meshing_decimation_quadric_edge_collapse"
FlipOp == "meshing_edge_flip_by_planar_optimization"
SaveOp == "save_current_mesh"

\* the cleanup filters in the order the pre_clean block applies them
CleanFiltersMut ==
    << "meshing_remove_duplicate_faces",
       "meshing_merge_close_vertices",
       "meshing_remove_unreferenced_vertices" >>
CleanFilters ==
    << "meshing_merge_close_vertices",
       "meshing_remove_unreferenced_vertices",
       "meshing_remove_duplicate_faces" >>

DecimateOp(v) == IF v = "tex" THEN DecimateTexOp ELSE DecimateStdOp

\* ------------------------------------------------- target face computation
\* 0.0 <= percentage_reduction <= 1.0
InRangeMut(e) == TRUE
InRange(e) == 0 <= e /\ e <= Eighths

\* max(4, targetfacenum)
ClampTargetMut(t) == t
ClampTarget(t) == Max(MinTargetFaces, t)

\* the if / elif / else that computes targetfacenum, before the clamp
RawTarget(target_faces, percentage_reduction, current_faces) ==
    IF target_faces.tag = "int" /\ target_faces.val > 0
    THEN target_faces.val
    ELSE IF percentage_reduction.tag = "float" /\ InRange(percentage_reduction.val)
    THEN Trunc(current_faces * (Eighths - percentage_reduction.val), Eighths)
    ELSE IF target_faces.tag = "int" THEN target_faces.val
    ELSE DefaultTargetFaces

CalcTarget(target_faces, percentage_reduction, current_faces) ==
    ClampTarget(RawTarget(target_faces, percentage_reduction, current_faces))

\* simplify_mesh: target_faces_val / percentage_reduction_val by simplify_method
SelectArgsMut(simplify_method, target_faces, percentage_reduction) ==
    [target_faces |-> target_faces, percentage_reduction |-> percentage_reduction]
SelectArgs(simplify_method, target_faces, percentage_reduction) ==
    IF simplify_method = "target_faces"
    THEN [target_faces |-> target_faces, percentage_reduction |-> None]
    ELSE [target_faces |-> None, percentage_reduction |-> percentage_reduction]

\* the pre_clean argument the fallback call passes ("Don't do pre-clean again")
FallbackPreCleanMut(pre_clean) == pre_clean
FallbackPreClean(pre_clean) == FALSE

\* ------------------------------------------------------------ input domains
Variants == {"tex", "std"}
Entries == {"simplify_mesh", "_simplify_with_texture", "_simplify_without_texture"}
Methods == {"target_faces", "percentage_reduction"}
TargetFacesVals == {PyInt(-1), PyInt(0), PyInt(3), PyInt(6)}
PercentVals == {NaN, PyFloat(-1), PyFloat(0), PyFloat(2), PyFloat(3),
                PyFloat(8), PyFloat(9)}
Meshes ==
    { [has_texture |-> t, faces |-> f, cleaned_faces |-> c] :
        t \in BOOLEAN, f \in 0..MaxFaces, c \in 0..MaxFaces }
ValidMesh(m) == m.cleaned_faces <= m.faces /\ m.faces - m.cleaned_faces <= MaxRemoved

VARIABLES
    entry,        \* the method the caller invoked
    params,       \* the arguments of that call
    mesh,         \* the input mesh (and the content of the input OBJ file)
    pc,           \* the statement about to execute
    cur,          \* the pipeline that is executing: "none", "tex" or "std"
    run,          \* per pipeline: its arguments, locals and its MeshSet
    fi,           \* index of the next cleanup filter of the running pipeline
    input_obj,    \* input OBJ file: "absent", "empty", "partial", "written"
    output_obj,   \* output OBJ file: "absent", "empty", "partial", "written"
    saved,        \* what save_current_mesh wrote to the output file
    exc,          \* the exception that is propagating, "none" if none
    result        \* what the caller received: "none", "mesh", "returned", "error"

vars == << entry, params, mesh, pc, cur, run, fi, input_obj, output_obj,
           saved, exc, result >>

NoRun ==
    [called |-> FALSE, target_faces |-> None, percentage_reduction |-> None,
     pre_clean |-> FALSE, current_faces |-> 0, faces |-> 0, targetfacenum |-> 0,
     iterations |-> 0, ops |-> << >>, raised |-> "none"]

NewRun(target_faces, percentage_reduction, pre_clean) ==
    [NoRun EXCEPT !.called = TRUE, !.target_faces = target_faces,
                  !.percentage_reduction = percentage_reduction,
                  !.pre_clean = pre_clean]

NotSaved == [by |-> "none", ops |-> << >>, faces |-> 0]

InitNode ==
    /\ entry = "simplify_mesh"
    /\ params \in { [simplify_method |-> m, target_faces |-> t,
                     percentage_reduction |-> p, pre_clean |-> c] :
                        m \in Methods, t \in TargetFacesVals,
                        p \in PercentVals, c \in {"True", "False"} }
    /\ pc = "simplify_mesh"
    /\ cur = "none"
    /\ run = [v \in Variants |-> NoRun]
    /\ input_obj = "absent"
    /\ output_obj = "absent"

InitDirect ==
    /\ entry \in {"_simplify_with_texture", "_simplify_without_texture"}
    /\ params \in { [target_faces |-> t, percentage_reduction |-> p, pre_clean |-> c] :
                        t \in TargetFacesVals \cup {None},
                        p \in PercentVals \cup {None}, c \in BOOLEAN }
    /\ pc = "load"
    /\ cur = (IF entry = "_simplify_with_texture" THEN "tex" ELSE "std")
    /\ run = [v \in Variants |->
                 IF v = cur
                 THEN NewRun(params.target_faces, params.percentage_reduction,
                             params.pre_clean)
                 ELSE NoRun]
    /\ input_obj = "written"
    /\ output_obj = "absent"

Init ==
    /\ mesh \in { m \in Meshes : ValidMesh(m) }
    /\ fi = 1
    /\ saved = NotSaved
    /\ exc = "none"
    /\ result = "none"
    /\ (InitNode \/ InitDirect)

\* -------------------------------------------------------------- helpers
Append1(v, op) == Append(run[v].ops, op)

\* an exception leaves the running pipeline and reaches its caller: the
\* try/finally of simplify_mesh, or the caller of a pipeline invoked directly
Propagate(kind) ==
    /\ cur' = "none"
    /\ exc' = kind
    /\ IF entry = "simplify_mesh"
       THEN pc' = "finally" /\ result' = result
       ELSE pc' = "done" /\ result' = "error"

\* the except block of _simplify_with_texture: call _simplify_without_texture
\* with the same arguments and pre_clean = False, then return
FallbackMut(op) ==
    /\ run' = [run EXCEPT !["tex"].raised = op]
    /\ pc' = "report"
    /\ UNCHANGED << entry, params, mesh, cur, fi, input_obj, output_obj, saved,
                    exc, result >>
Fallback(op) ==
    /\ run' = [run EXCEPT
                 !["tex"].raised = op,
                 !["std"] = NewRun(run["tex"].target_faces,
                                   run["tex"].percentage_reduction,
                                   FallbackPreClean(run["tex"].pre_clean))]
    /\ cur' = "std"
    /\ pc' = "load"
    /\ fi' = 1
    /\ UNCHANGED << entry, params, mesh, input_obj, output_obj, saved, exc, result >>

\* ------------------------------------------------------------ simplify_mesh
\* lines 99-118: convert the arguments, create the two temporary files
simplify_mesh ==
    /\ pc = "simplify_mesh"
    /\ input_obj' = "empty"
    /\ output_obj' = "empty"
    /\ pc' = "write_obj"
    /\ UNCHANGED << entry, params, mesh, cur, run, fi, saved, exc, result >>

\* lines 121-168: write the input OBJ and call the pipeline has_texture selects
write_obj ==
    /\ pc = "write_obj"
    /\ LET args == SelectArgs(params.simplify_method, params.target_faces,
                              params.percentage_reduction)
           v == IF mesh.has_texture THEN "tex" ELSE "std"
       IN /\ cur' = v
          /\ run' = [run EXCEPT ![v] = NewRun(args.target_faces,
                                              args.percentage_reduction,
                                              _bool_str_to_bool(params.pre_clean))]
    /\ input_obj' = "written"
    /\ pc' = "load"
    /\ fi' = 1
    /\ UNCHANGED << entry, params, mesh, output_obj, saved, exc, result >>

\* mesh.write_obj raises
write_obj_raises ==
    /\ pc = "write_obj"
    /\ input_obj' \in {"empty", "partial"}
    /\ pc' = "finally"
    /\ exc' = "write_obj"
    /\ UNCHANGED << entry, params, mesh, cur, run, fi, output_obj, saved, result >>

\* -------------------------------------------------------------- pipelines
\* lines 213-222 / 323-332: MeshSet(), load_new_mesh, read the counts
load_new_mesh ==
    /\ pc = "load"
    /\ cur \in Variants
    /\ run' = [run EXCEPT ![cur].faces = mesh.faces,
                          ![cur].current_faces = mesh.faces,
                          ![cur].ops = Append1(cur, LoadOp)]
    /\ pc' = IF run[cur].pre_clean THEN "clean" ELSE "target"
    /\ fi' = 1
    /\ UNCHANGED << entry, params, mesh, cur, input_obj, output_obj, saved, exc, result >>

load_new_mesh_raises ==
    /\ pc = "load"
    /\ cur \in Variants
    /\ run' = [run EXCEPT ![cur].raised = LoadOp]
    /\ Propagate(LoadOp)
    /\ UNCHANGED << entry, params, mesh, fi, input_obj, output_obj, saved >>

\* lines 225-252 / 335-362: the pre_clean block, one filter per step; after
\* the last filter current_faces is updated to the cleaned face count
apply_clean_filter ==
    /\ pc = "clean"
    /\ cur \in Variants
    /\ IF fi < Len(CleanFilters)
       THEN /\ run' = [run EXCEPT ![cur].ops = Append1(cur, CleanFilters[fi])]
            /\ fi' = fi + 1
            /\ pc' = "clean"
       ELSE /\ run' = [run EXCEPT ![cur].ops = Append1(cur, CleanFilters[fi]),
                                  ![cur].faces = mesh.cleaned_faces,
                                  ![cur].current_faces = mesh.cleaned_faces]
            /\ fi' = 1
            /\ pc' = "target"
    /\ UNCHANGED << entry, params, mesh, cur, input_obj, output_obj, saved, exc, result >>

apply_clean_filter_raises ==
    /\ pc = "clean"
    /\ cur \in Variants
    /\ run' = [run EXCEPT ![cur].raised = CleanFilters[fi]]
    /\ Propagate(CleanFilters[fi])
    /\ UNCHANGED << entry, params, mesh, fi, input_obj, output_obj, saved >>

\* lines 254-267 / 364-377: compute and clamp targetfacenum
calc_target ==
    /\ pc = "target"
    /\ cur \in Variants
    /\ run' = [run EXCEPT
                 ![cur].targetfacenum =
                     CalcTarget(run[cur].target_faces,
                                run[cur].percentage_reduction,
                                run[cur].current_faces),
                 ![cur].ops = Append1(cur, TargetOp)]
    /\ pc' = "decimate"
    /\ UNCHANGED << entry, params, mesh, cur, fi, input_obj, output_obj, saved, exc, result >>

\* lines 271-279 / 380-387: the decimation filter; the library leaves between
\* min(faces, target) and faces faces
decimate ==
    /\ pc = "decimate"
    /\ cur \in Variants
    /\ \E nf \in Min(run[cur].faces, run[cur].targetfacenum) .. run[cur].faces :
          run' = [run EXCEPT ![cur].faces = nf,
                             ![cur].ops = Append1(cur, DecimateOp(cur))]
    /\ pc' = "flip"
    /\ UNCHANGED << entry, params, mesh, cur, fi, input_obj, output_obj, saved, exc, result >>

\* the textured filter raises inside the try block: lines 286-304
decimate_tex_raises ==
    /\ pc = "decimate"
    /\ cur = "tex"
    /\ Fallback(DecimateTexOp)

\* the geometry-only filter raises: nothing catches it
decimate_std_raises ==
    /\ pc = "decimate"
    /\ cur = "std"
    /\ run' = [run EXCEPT ![cur].raised = DecimateStdOp]
    /\ Propagate(DecimateStdOp)
    /\ UNCHANGED << entry, params, mesh, fi, input_obj, output_obj, saved >>

\* lines 282-285 / 390-393: the edge-flip post-pass, iterations=2
edge_flip ==
    /\ pc = "flip"
    /\ cur \in Variants
    /\ run' = [run EXCEPT ![cur].iterations = FlipIterations,
                          ![cur].ops = Append1(cur, FlipOp)]
    /\ pc' = "report"
    /\ UNCHANGED << entry, params, mesh, cur, fi, input_obj, output_obj, saved, exc, result >>

edge_flip_tex_raises ==
    /\ pc = "flip"
    /\ cur = "tex"
    /\ Fallback(FlipOp)

edge_flip_std_raises ==
    /\ pc = "flip"
    /\ cur = "std"
    /\ run' = [run EXCEPT ![cur].raised = FlipOp]
    /\ Propagate(FlipOp)
    /\ UNCHANGED << entry, params, mesh, fi, input_obj, output_obj, saved >>

\* lines 306-311 / 395-400: elapsed time and reduction percentage;
\* (current_faces - new_faces) / current_faces raises when current_faces = 0
report ==
    /\ pc = "report"
    /\ cur \in Variants
    /\ IF run[cur].current_faces = 0
       THEN /\ run' = [run EXCEPT ![cur].raised = "ZeroDivisionError"]
            /\ Propagate("ZeroDivisionError")
       ELSE /\ pc' = "save"
            /\ UNCHANGED << cur, run, exc, result >>
    /\ UNCHANGED << entry, params, mesh, fi, input_obj, output_obj, saved >>

\* lines 314 / 403: save_current_mesh, then return to the caller of the
\* pipeline (through line 304 when this is the fallback)
save_current_mesh ==
    /\ pc = "save"
    /\ cur \in Variants
    /\ run' = [run EXCEPT ![cur].ops = Append1(cur, SaveOp)]
    /\ saved' = [by |-> cur, ops |-> run[cur].ops, faces |-> run[cur].faces]
    /\ output_obj' = "written"
    /\ cur' = "none"
    /\ IF entry = "simplify_mesh"
       THEN pc' = "reload" /\ result' = result
       ELSE pc' = "done" /\ result' = "returned"
    /\ UNCHANGED << entry, params, mesh, fi, input_obj, exc >>

save_current_mesh_raises ==
    /\ pc = "save"
    /\ cur \in Variants
    /\ run' = [run EXCEPT ![cur].raised = SaveOp]
    /\ output_obj' \in {output_obj, "partial"}
    /\ Propagate(SaveOp)
    /\ UNCHANGED << entry, params, mesh, fi, input_obj, saved >>

\* --------------------------------------------- simplify_mesh, after the call
\* lines 170-198: reload the output OBJ, copy the attributes, return
reload ==
    /\ pc = "reload"
    /\ pc' = "finally"
    /\ UNCHANGED << entry, params, mesh, cur, run, fi, input_obj, output_obj,
                    saved, exc, result >>

reload_raises ==
    /\ pc = "reload"
    /\ pc' = "finally"
    /\ exc' = "reload"
    /\ UNCHANGED << entry, params, mesh, cur, run, fi, input_obj, output_obj,
                    saved, result >>

\* if os.path.exists(f): os.remove(f)
RemoveIfExistsMut(f) == IF f = "written" THEN "absent" ELSE f
RemoveIfExists(f) == IF f # "absent" THEN "absent" ELSE f

\* lines 199-204: the finally block removes both temporary files; then the
\* return value or the exception reaches the caller
finally ==
    /\ pc = "finally"
    /\ input_obj' = RemoveIfExists(input_obj)
    /\ output_obj' = RemoveIfExists(output_obj)
    /\ result' = IF exc = "none" THEN "mesh" ELSE "error"
    /\ pc' = "done"
    /\ UNCHANGED << entry, params, mesh, cur, run, fi, saved, exc >>

Next ==
    \/ simplify_mesh
    \/ write_obj
    \/ write_obj_raises
    \/ load_new_mesh
    \/ load_new_mesh_raises
    \/ apply_clean_filter
    \/ apply_clean_filter_raises
    \/ calc_target
    \/ decimate
    \/ decimate_tex_raises
    \/ decimate_std_raises
    \/ edge_flip
    \/ edge_flip_tex_raises
    \/ edge_flip_std_raises
    \/ report
    \/ save_current_mesh
    \/ save_current_mesh_raises
    \/ reload
    \/ reload_raises
    \/ finally

Spec == Init /\ [][Next]_vars

\* ------------------------------------------------------------- type check
TypeOK ==
    /\ entry \in Entries
    /\ pc \in {"simplify_mesh", "write_obj", "load", "clean", "target", "decimate",
               "flip", "report", "save", "reload", "finally", "done"}
    /\ cur \in Variants \cup {"none"}
    /\ fi \in 1..Len(CleanFilters)
    /\ input_obj \in {"absent", "empty", "partial", "written"}
    /\ output_obj \in {"absent", "empty", "partial", "written"}
    /\ result \in {"none", "mesh", "returned", "error"}
    /\ \A v \in Variants : run[v].faces \in 0..MaxFaces

\* ------------------------------------------------------ vocabulary of claims
Has(v, op) == \E i \in DOMAIN run[v].ops : run[v].ops[i] = op
Count(v, op) == Cardinality({ i \in DOMAIN run[v].ops : run[v].ops[i] = op })
CleanNames == { "meshing_merge_close_vertices",
                "meshing_remove_unreferenced_vertices",
                "meshing_remove_duplicate_faces" }
CleanupRan(v) == \A f \in CleanNames : Has(v, f)
\* the textured filter or its post-pass raised and the except block ran
FellBack == run["tex"].raised \in {DecimateTexOp, FlipOp}
IsPrefix(s, t) == Len(s) <= Len(t) /\ \A i \in 1..Len(s) : s[i] = t[i]
\* the fraction is a number of the closed interval [0, 1]
Closed01(p) == p.tag = "float" /\ 0 <= p.val /\ p.val <= 8
\* the fraction is a number of the open interval (0, 1)
Open01(p) == p.tag = "float" /\ 0 < p.val /\ p.val < 8

\* C1: whatever target_faces and percentage_reduction are, the target face
\* count a pipeline computes and hands to its decimation filter is at least 4.
C1_TargetFloor ==
    \A v \in Variants : Has(v, TargetOp) => run[v].targetfacenum >= 4

\* C1 witness: a request below the floor reached the decimation filter as 4.
C1_Witness ==
    \E v \in Variants :
        /\ run[v].target_faces = PyInt(3)
        /\ Has(v, DecimateOp(v))
        /\ run[v].targetfacenum = 4

\* C2: when the textured filter or its post-pass raises, the geometry-only
\* pipeline is the next to run, and over the whole session each cleanup
\* filter is applied at most once, whatever pre_clean is.
C2_FallbackCleansOnce ==
    /\ \A f \in CleanNames : Count("tex", f) + Count("std", f) <= 1
    /\ FellBack => run["std"].called /\ ~Has("tex", SaveOp)
    /\ (FellBack /\ run["std"].ops = << >> /\ run["std"].raised = "none")
          => (cur = "std" /\ pc = "load")

\* C2 witness: a pre-cleaned textured attempt failed and the fallback decimated.
C2_Witness ==
    /\ FellBack
    /\ run["tex"].pre_clean
    /\ CleanupRan("tex")
    /\ Has("std", DecimateStdOp)

\* C3 (as claimed): with pre_clean requested, the mesh the fallback decimates
\* has had the cleanup filters applied and no textured collapse.
C3_FallbackOnCleanedMesh ==
    (FellBack /\ run["tex"].pre_clean /\ Has("std", DecimateStdOp))
        => (CleanupRan("std") /\ ~Has("std", DecimateTexOp))

\* a pipeline was called with no target_faces and with no usable fraction
Unusable(r) ==
    /\ r.called
    /\ r.target_faces = None
    /\ ~Open01(r.percentage_reduction)

\* C4 (as claimed): with both target modes unset, or a fraction outside the
\* open interval (0,1), no cleanup filter and no decimation filter is applied.
C4_RejectedBeforeMutation ==
    \A v \in Variants :
        Unusable(run[v]) =>
            /\ \A f \in CleanNames : ~Has(v, f)
            /\ ~Has(v, DecimateOp(v))

\* C4 (amended): such a configuration is not rejected.  With target_faces
\* unset, a fraction that is absent, NaN or outside the closed interval [0,1]
\* gives the default target of 1000 faces; the fractions 0 and 1 are in range
\* and give max(4, F) and 4; cleanup and decimation then run with that target.
C4_DefaultsInsteadOfRejecting ==
    \A v \in Variants :
        (Unusable(run[v]) /\ Has(v, TargetOp)) =>
            LET p == run[v].percentage_reduction
                F == IF CleanupRan(v) THEN mesh.cleaned_faces ELSE mesh.faces
            IN /\ ~Closed01(p) => run[v].targetfacenum = 1000
               /\ (Closed01(p) /\ p.val = 0) =>
                      run[v].targetfacenum = (IF F >= 4 THEN F ELSE 4)
               /\ (Closed01(p) /\ p.val = 8) => run[v].targetfacenum = 4

\* C4 witness: a fraction above 1 was cleaned and decimated toward 1000 faces.
C4_Witness ==
    \E v \in Variants :
        /\ Unusable(run[v])
        /\ run[v].percentage_reduction = PyFloat(9)
        /\ CleanupRan(v)
        /\ Has(v, DecimateOp(v))
        /\ run[v].targetfacenum = 1000

\* the target simplify_mesh leads to for the given widget values
TargetWith(m, t, p, F) ==
    LET a == SelectArgs(m, t, p)
    IN CalcTarget(a.target_faces, a.percentage_reduction, F)

\* C5: exactly one target option is honoured.  In a simplify_mesh session
\* the computed target is the same whatever the other option's value is; with
\* both options absent the target is 1000.
C5_OneOptionHonoured ==
    \A v \in Variants :
        Has(v, TargetOp) =>
            /\ (entry = "simplify_mesh" /\ params.simplify_method = "target_faces") =>
                  /\ run[v].targetfacenum =
                         (IF params.target_faces.val >= 4
                          THEN params.target_faces.val ELSE 4)
                  /\ \A p \in PercentVals \cup {None} :
                        run[v].targetfacenum =
                            TargetWith(params.simplify_method, params.target_faces,
                                       p, run[v].current_faces)
            /\ (entry = "simplify_mesh" /\ params.simplify_method = "percentage_reduction") =>
                  \A t \in TargetFacesVals \cup {None} :
                        run[v].targetfacenum =
                            TargetWith(params.simplify_method, t,
                                       params.percentage_reduction,
                                       run[v].current_faces)
            /\ (run[v].target_faces = None /\ run[v].percentage_reduction = None) =>
                  run[v].targetfacenum = 1000

\* C5 witness: in percentage mode a positive target_faces widget value was
\* ignored in favour of the fraction.
C5_Witness ==
    \E v \in Variants :
        /\ entry = "simplify_mesh"
        /\ params.simplify_method = "percentage_reduction"
        /\ params.target_faces = PyInt(6)
        /\ params.percentage_reduction = PyFloat(2)
        /\ Has(v, DecimateOp(v))
        /\ run[v].targetfacenum = 5

\* C6: the output file is written only by a pipeline whose MeshSet completed
\* both its decimation filter and the post-pass; a mesh is returned only from
\* such a file; a textured MeshSet whose post-pass raised is never saved.
C6_NoPartialMesh ==
    /\ saved.by \in Variants =>
          \E i, j \in DOMAIN saved.ops :
              /\ i < j
              /\ saved.ops[i] = DecimateOp(saved.by)
              /\ saved.ops[j] = FlipOp
    /\ output_obj = "written" => saved.by \in Variants
    /\ (pc = "reload" \/ result \in {"mesh", "returned"}) =>
          (exc = "none" /\ saved.by \in Variants)
    /\ pc = "done" => result \in {"mesh", "returned", "error"}
    /\ (Has("tex", DecimateTexOp) /\ run["tex"].raised = FlipOp) =>
          (saved.by # "tex" /\ ~Has("tex", SaveOp))

\* C6 witness: the textured decimation succeeded, its post-pass raised, and
\* the caller received the mesh the fallback saved.
C6_Witness ==
    /\ Has("tex", DecimateTexOp)
    /\ run["tex"].raised = FlipOp
    /\ saved.by = "std"
    /\ result = "mesh"

\* C7: in percentage mode with the fraction p in range the target is
\* max(4, trunc(F * (1 - p))), F being the face count after cleanup when the
\* pipeline cleaned its mesh and the loaded face count otherwise.
C7_PercentageTruncates ==
    \A v \in Variants :
        (Has(v, TargetOp) /\ run[v].target_faces = None
            /\ Closed01(run[v].percentage_reduction)) =>
            LET F == IF CleanupRan(v) THEN mesh.cleaned_faces ELSE mesh.faces
                t == (F * (8 - run[v].percentage_reduction.val)) \div 8
            IN run[v].targetfacenum = (IF t >= 4 THEN t ELSE 4)

\* C7 witness: cleanup removed faces and the product had a fractional part of
\* one half or more, which truncation dropped.
C7_Witness ==
    \E v \in Variants :
        /\ run[v].target_faces = None
        /\ Open01(run[v].percentage_reduction)
        /\ CleanupRan(v)
        /\ mesh.cleaned_faces < mesh.faces
        /\ (mesh.cleaned_faces * (8 - run[v].percentage_reduction.val)) % 8 >= 4
        /\ (mesh.cleaned_faces * (8 - run[v].percentage_reduction.val)) \div 8 >= 4
        /\ Has(v, DecimateOp(v))

\* C8 (as claimed): once the decimation filter and the post-pass completed,
\* the report before the export never raises, also for a mesh of zero faces.
C8_ReportNeverRaises ==
    \A v \in Variants : Has(v, FlipOp) => run[v].raised # "ZeroDivisionError"

\* the calls a pipeline makes on its MeshSet, in order
Expected(v) ==
    << "load_new_mesh" >>
    \o (IF run[v].pre_clean
        THEN << "meshing_merge_close_vertices",
                "meshing_remove_unreferenced_vertices",
                "meshing_remove_duplicate_faces" >>
        ELSE << >>)
    \o << "targetfacenum", DecimateOp(v),
          "meshing_edge_flip_by_planar_optimization", "save_current_mesh" >>

\* C9: every pipeline run goes load, cleaning (only with pre_clean, the three
\* filters in order, before the target is computed), decimation, post-pass
\* (once, 2 iterations), save; nothing is saved before the post-pass.
C9_StepOrder ==
    \A v \in Variants :
        /\ IsPrefix(run[v].ops, Expected(v))
        /\ Has(v, FlipOp) => run[v].iterations = 2
        /\ Has(v, SaveOp) => Count(v, FlipOp) = 1
        /\ saved.by = v => Append(saved.ops, "save_current_mesh") = Expected(v)

\* C9 witness: a cleaned textured attempt fell back and the fallback saved.
C9_Witness ==
    /\ FellBack
    /\ CleanupRan("tex")
    /\ Has("tex", TargetOp)
    /\ Has("std", SaveOp)
    /\ saved.by = "std"

\* C10 (as claimed): the target the fallback hands to the geometry-only filter
\* equals the target computed for the failed textured attempt.
C10_FallbackSameTarget ==
    (FellBack /\ Has("std", TargetOp)) =>
        run["std"].targetfacenum = run["tex"].targetfacenum

\* C11: once simplify_mesh has created both temporary files, on every exit
\* path (normal return, or an error while writing the input, in a pipeline,
\* in the fallback, or while reloading) both files have been removed by the
\* time the mesh or the error reaches the caller.
C11_TempFilesRemoved ==
    (entry = "simplify_mesh" /\ (pc = "done" \/ result # "none")) =>
        (input_obj = "absent" /\ output_obj = "absent")

\* C11 witness: the fallback raised while saving and the error reached the
\* caller of simplify_mesh.
C11_Witness ==
    /\ entry = "simplify_mesh"
    /\ pc = "done"
    /\ result = "error"
    /\ FellBack
    /\ run["std"].raised = SaveOp

====
